---------------------------- MODULE Spec2Model ----------------------------
(* Model of the waitlist worker (src/src/worker.ts): the POST /api/waitlist   *)
(* handler, its payload normalisation and validation, the per-IP per-UTC-day  *)
(* rate limiter and the upsert into waitlist_entries.                         *)
(*                                                                            *)
(* Strings are sequences of one-character strings, so that trim(),            *)
(* toLowerCase(), split(',') and length ceilings are computed, not assumed.   *)
(* JavaScript values are tagged records: [t |-> "undef"], [t |-> "null"],     *)
(* [t |-> "str", s |-> <<...>>], [t |-> "num", milli |-> n] (a finite number  *)
(* in thousandths) and [t |-> "nonfinite"] (NaN, Infinity).                   *)
EXTENDS Integers, Sequences, FiniteSets, TLC

(* ------------------------------------------------------------------------ *)
(* Bounds of the model.                                                     *)
(* ------------------------------------------------------------------------ *)
MaxRequests == 3
MaxOverlap == 2
MaxDay == 1

(* ------------------------------------------------------------------------ *)
(* JavaScript values and strings.                                           *)
(* ------------------------------------------------------------------------ *)
Undef == [t |-> "undef"]
Null == [t |-> "null"]
Str(s) == [t |-> "str", s |-> s]
Num(m) == [t |-> "num", milli |-> m]
NonFinite == [t |-> "nonfinite"]

IsStr(v) == v.t = "str"
IsNullish(v) == v.t \in {"undef", "null"}

Whitespace == {" ", "\t", "\n"}
UpperChars == {"A", "B", "C", "U"}
LowerChars == {"a", "b", "c", "u", "h", "i", "x", "n", "o", "t", "p", "e"}
DigitChars == {"0", "1", "2", "3", "4", "5", "6", "7", "8", "9"}

Rep(c, n) == [i \in 1..n |-> c]

RECURSIVE TrimStart(_)
TrimStart(s) ==
    IF s = <<>> THEN <<>>
    ELSE IF Head(s) \in Whitespace THEN TrimStart(Tail(s)) ELSE s

RECURSIVE TrimEnd(_)
TrimEnd(s) ==
    IF s = <<>> THEN <<>>
    ELSE IF s[Len(s)] \in Whitespace THEN TrimEnd(SubSeq(s, 1, Len(s) - 1)) ELSE s

Trim(s) == TrimEnd(TrimStart(s))

LowerChar(c) ==
    CASE c = "A" -> "a"
      [] c = "B" -> "b"
      [] c = "C" -> "c"
      [] c = "U" -> "u"
      [] OTHER -> c

(* The email bound as submitted, its case kept. *)
ToLowerCaseKeepsCase(s) == s

ToLowerCase(s) == [i \in 1..Len(s) |-> LowerChar(s[i])]

(* Index of the first occurrence of c in s, 0 when there is none. *)
IndexOf(s, c) ==
    IF \E i \in 1..Len(s) : s[i] = c
    THEN CHOOSE i \in 1..Len(s) : s[i] = c /\ \A j \in 1..(i - 1) : s[j] # c
    ELSE 0

(* s.split(',')[0] *)
SplitFirst(s, c) ==
    IF IndexOf(s, c) = 0 THEN s ELSE SubSeq(s, 1, IndexOf(s, c) - 1)


(* ------------------------------------------------------------------------ *)
(* Request bodies: parseRequestBody and normalizePayload.                   *)
(* ------------------------------------------------------------------------ *)
Keys == {"email", "useCase", "use_case", "intent", "description", "website", "company"}
EmptyObj == [k \in Keys |-> Undef]

isRecord(body) == body.kind \in {"object", "array"}

(* A request's body is [kind, fields]: kind "object" (a JSON object, or the *)
(* entries of a form), "array" or "scalar" (other JSON values), "malformed" *)
(* (text that does not parse). A form value is a string or a file, of which *)
(* the handler keeps the name.                                              *)
FormValue(v) == IF v.t = "file" THEN Str(v.name) ELSE v

(* Result: [threw |-> BOOLEAN, raw |-> object]. request.json() failing is   *)
(* caught; request.formData() failing is not.                               *)
parseRequestBody(request) ==
    CASE request.ctype = "json" ->
           [threw |-> FALSE,
            raw |-> IF request.body.kind # "malformed" /\ isRecord(request.body)
                    THEN (IF request.body.kind = "object" THEN request.body.fields ELSE EmptyObj)
                    ELSE EmptyObj]
      [] request.ctype \in {"urlencoded", "multipart"} ->
           IF request.body.kind = "object"
           THEN [threw |-> FALSE,
                 raw |-> [k \in Keys |-> FormValue(request.body.fields[k])]]
           ELSE [threw |-> TRUE, raw |-> EmptyObj]
      [] OTHER -> [threw |-> FALSE, raw |-> EmptyObj]

toOptionalString(value) ==
    IF ~IsStr(value) THEN Undef
    ELSE IF Len(Trim(value.s)) > 0 THEN Str(Trim(value.s)) ELSE Undef

(* a ?? b *)
Coalesce(a, b) == IF IsNullish(a) THEN b ELSE a

normalizePayload(raw) ==
    [email |-> toOptionalString(raw["email"]),
     useCase |-> toOptionalString(
         Coalesce(Coalesce(Coalesce(raw["useCase"], raw["use_case"]), raw["intent"]),
                  raw["description"])),
     website |-> toOptionalString(Coalesce(raw["website"], raw["company"]))]

(* ------------------------------------------------------------------------ *)
(* waitlistPayloadSchema.                                                   *)
(* ------------------------------------------------------------------------ *)
EmailMaxLen == 320
UseCaseMaxLen == 1200
WebsiteMaxLen == 200

AlnumChars == UpperChars \cup LowerChars \cup DigitChars
LetterChars == UpperChars \cup LowerChars

(* z.email(): a local part of [A-Za-z0-9_'+-.] not starting with a dot, not *)
(* ending in a dot or quote, no two dots in a row anywhere; then "@"; then  *)
(* one or more dot-terminated labels [A-Za-z0-9][A-Za-z0-9-]* and a final   *)
(* label of at least two letters.                                           *)
IsEmail(s) ==
    LET at == IndexOf(s, "@")
        local == SubSeq(s, 1, at - 1)
        domain == SubSeq(s, at + 1, Len(s))
        dots == {i \in 1..Len(domain) : domain[i] = "."}
        lastDot == CHOOSE i \in dots : \A j \in dots : j <= i
    IN  /\ Len(s) > 0
        /\ s[1] # "."
        /\ \A i \in 1..(Len(s) - 1) : ~(s[i] = "." /\ s[i + 1] = ".")
        /\ at >= 2
        /\ \A i \in 1..Len(local) : local[i] \in AlnumChars \cup {"_", "'", "+", "-", "."}
        /\ local[Len(local)] \in AlnumChars \cup {"_", "+", "-"}
        /\ dots # {}
        /\ \A i \in 1..lastDot :
              /\ domain[i] \in AlnumChars \cup {"-", "."}
              /\ (i = 1 \/ domain[i - 1] = ".") => domain[i] \in AlnumChars
        /\ Len(domain) - lastDot >= 2
        /\ \A i \in (lastDot + 1)..Len(domain) : domain[i] \in LetterChars

(* The length ceiling taken as exclusive. *)
EmailFieldOkExclusive(value) ==
    /\ IsStr(value)
    /\ IsEmail(Trim(value.s))
    /\ Len(Trim(value.s)) < EmailMaxLen

(* z.preprocess(trim if string, z.email().max(320)) *)
EmailFieldOk(value) ==
    /\ IsStr(value)
    /\ IsEmail(Trim(value.s))
    /\ Len(Trim(value.s)) <= EmailMaxLen

(* The optional string without its length ceiling. *)
OptionalStringOkNoMax(value, n) == value.t = "undef" \/ IsStr(value)

(* z.string().trim().max(n).optional() *)
OptionalStringOk(value, n) ==
    \/ value.t = "undef"
    \/ IsStr(value) /\ Len(Trim(value.s)) <= n

OptionalStringData(value) == IF IsStr(value) THEN Str(Trim(value.s)) ELSE Undef

(* waitlistPayloadSchema.safeParse *)
safeParse(normalized) ==
    IF /\ EmailFieldOk(normalized.email)
       /\ OptionalStringOk(normalized.useCase, UseCaseMaxLen)
       /\ OptionalStringOk(normalized.website, WebsiteMaxLen)
    THEN [success |-> TRUE,
          data |-> [email |-> Str(Trim(normalized.email.s)),
                    useCase |-> OptionalStringData(normalized.useCase),
                    website |-> OptionalStringData(normalized.website)]]
    ELSE [success |-> FALSE, data |-> Undef]

(* ------------------------------------------------------------------------ *)
(* Configuration and request metadata.                                      *)
(* ------------------------------------------------------------------------ *)
DefaultRateLimitPerDay == 10

DigitValue(c) ==
    CASE c = "0" -> 0 [] c = "1" -> 1 [] c = "2" -> 2 [] c = "3" -> 3 [] c = "4" -> 4
      [] c = "5" -> 5 [] c = "6" -> 6 [] c = "7" -> 7 [] c = "8" -> 8 [] c = "9" -> 9

(* The longest prefix of s made of digits. *)
RECURSIVE DigitPrefix(_)
DigitPrefix(s) ==
    IF s = <<>> \/ Head(s) \notin DigitChars THEN <<>>
    ELSE <<Head(s)>> \o DigitPrefix(Tail(s))

RECURSIVE DigitsValue(_)
DigitsValue(ds) ==
    IF ds = <<>> THEN 0
    ELSE 10 * DigitsValue(SubSeq(ds, 1, Len(ds) - 1)) + DigitValue(ds[Len(ds)])

(* Number.parseInt(s, 10): leading whitespace skipped, an optional sign,    *)
(* then digits up to the first non-digit; NaN when there is no digit.       *)
parseInt(s) ==
    LET t == TrimStart(s)
        signed == t # <<>> /\ Head(t) \in {"+", "-"}
        rest == IF signed THEN Tail(t) ELSE t
        ds == DigitPrefix(rest)
    IN  IF ds = <<>> THEN NonFinite
        ELSE Num(1000 * (IF signed /\ Head(t) = "-" THEN 0 - DigitsValue(ds) ELSE DigitsValue(ds)))

parsePositiveInt(value, fallbackValue) ==
    IF value.t = "undef" \/ (IsStr(value) /\ value.s = <<>>) THEN fallbackValue
    ELSE LET parsedValue == parseInt(value.s)
         IN  IF parsedValue.t # "num" \/ parsedValue.milli < 1000 THEN fallbackValue
             ELSE parsedValue.milli \div 1000

UnknownIp == <<"u", "n", "k", "n", "o", "w", "n">>

(* headers.get(name): null when the header is absent *)
getConnectingIp(headers) ==
    IF IsStr(headers.cfConnectingIp) /\ Len(headers.cfConnectingIp.s) > 0
    THEN headers.cfConnectingIp.s
    ELSE IF IsStr(headers.xForwardedFor) /\ Len(headers.xForwardedFor.s) > 0
         THEN Trim(SplitFirst(headers.xForwardedFor.s, ","))
         ELSE UnknownIp

(* ------------------------------------------------------------------------ *)
(* Dates. A Date is [day, ms]: the UTC calendar day (year, month and date   *)
(* taken together as a day number) and the millisecond within it. An ISO    *)
(* string is the tuple of its fixed-width fields, which the store compares  *)
(* field by field as it compares TEXT.                                      *)
(* ------------------------------------------------------------------------ *)
DateUTC(day, h, mi, s, ms) == [day |-> day, ms |-> ((h * 60 + mi) * 60 + s) * 1000 + ms]

MsPerDay == DateUTC(0, 24, 0, 0, 0).ms

getTime(date) == date.day * MsPerDay + date.ms

toISOString(date) ==
    <<date.day,
      date.ms \div 3600000,
      (date.ms \div 60000) % 60,
      (date.ms \div 1000) % 60,
      date.ms % 1000>>

RECURSIVE TextLess(_, _)
TextLess(a, b) ==
    IF a = <<>> \/ b = <<>> THEN a = <<>> /\ b # <<>>
    ELSE IF Head(a) # Head(b) THEN Head(a) < Head(b)
    ELSE TextLess(Tail(a), Tail(b))

TextLeq(a, b) == a = b \/ TextLess(a, b)

startOfUtcDayIso(date) == toISOString(DateUTC(date.day, 0, 0, 0, 0))

(* The end of the day without its last millisecond's fraction. *)
endOfUtcDayIsoWholeSecond(date) == toISOString(DateUTC(date.day, 23, 59, 59, 0))

endOfUtcDayIso(date) == toISOString(DateUTC(date.day, 23, 59, 59, 999))

Max(a, b) == IF a >= b THEN a ELSE b

(* Math.ceil(n / d) for n >= 0, d > 0 *)
CeilDiv(n, d) == (n + d - 1) \div d

(* The seconds rounded down instead of up. *)
secondsUntilNextUtcDayFloor(now) ==
    LET nextDay == DateUTC(now.day + 1, 0, 0, 0, 0)
    IN  Max(1, (getTime(nextDay) - getTime(now)) \div 1000)

secondsUntilNextUtcDay(now) ==
    LET nextDay == DateUTC(now.day + 1, 0, 0, 0, 0)
    IN  Max(1, CeilDiv(getTime(nextDay) - getTime(now), 1000))

(* ------------------------------------------------------------------------ *)
(* The edge-request context (request.cf) and its snapshot.                  *)
(* ------------------------------------------------------------------------ *)
CfKeys == {"country", "region", "regionCode", "city", "postalCode", "continent",
           "timezone", "colo", "asn", "asOrganization", "latitude", "longitude",
           "tlsVersion", "httpProtocol"}

(* Number(s) for a decimal literal: surrounding whitespace dropped, an      *)
(* optional sign, digits, an optional fraction of up to three digits;       *)
(* anything else is NaN.                                                    *)
ToNumber(s) ==
    LET t == Trim(s)
        signed == t # <<>> /\ Head(t) \in {"+", "-"}
        rest == IF signed THEN Tail(t) ELSE t
        whole == DigitPrefix(rest)
        after == SubSeq(rest, Len(whole) + 1, Len(rest))
        frac == IF after # <<>> /\ Head(after) = "." THEN DigitPrefix(Tail(after)) ELSE <<>>
        used == Len(whole) + (IF after # <<>> /\ Head(after) = "." THEN 1 + Len(frac) ELSE 0)
        scaled == DigitsValue(whole) * 1000
                  + DigitsValue(frac \o Rep("0", 3 - Len(frac)))
    IN  IF whole = <<>> \/ used # Len(rest) \/ Len(frac) > 3 THEN NonFinite
        ELSE Num(IF signed /\ Head(t) = "-" THEN 0 - scaled ELSE scaled)

readCfString(input, key) ==
    IF input.t = "undef" THEN Null
    ELSE IF IsStr(input.f[key]) /\ Len(input.f[key].s) > 0 THEN input.f[key] ELSE Null

readCfFloat(input, key) ==
    IF input.t = "undef" THEN Null
    ELSE LET value == input.f[key]
         IN  IF value.t = "num" THEN value
             ELSE IF IsStr(value) /\ Len(Trim(value.s)) > 0 /\ ToNumber(value.s).t = "num"
                  THEN ToNumber(value.s)
                  ELSE Null

(* Math.trunc, on thousandths *)
Trunc(m) == IF m >= 0 THEN (m \div 1000) * 1000 ELSE 0 - (((0 - m) \div 1000) * 1000)

readCfInteger(input, key) ==
    LET value == readCfFloat(input, key)
    IN  IF value.t = "null" THEN Null ELSE Num(Trunc(value.milli))

getCfSnapshot(request) ==
    LET cf == request.cf
        botManagement == IF cf.t = "undef" THEN Undef
                         ELSE IF cf.botManagement.t = "obj" THEN cf.botManagement ELSE Undef
    IN  [country |-> readCfString(cf, "country"),
         region |-> readCfString(cf, "region"),
         regionCode |-> readCfString(cf, "regionCode"),
         city |-> readCfString(cf, "city"),
         postalCode |-> readCfString(cf, "postalCode"),
         continent |-> readCfString(cf, "continent"),
         timezone |-> readCfString(cf, "timezone"),
         colo |-> readCfString(cf, "colo"),
         asn |-> readCfInteger(cf, "asn"),
         asOrganization |-> readCfString(cf, "asOrganization"),
         latitude |-> readCfFloat(cf, "latitude"),
         longitude |-> readCfFloat(cf, "longitude"),
         botScore |-> readCfInteger(botManagement, "score"),
         tlsVersion |-> readCfString(cf, "tlsVersion"),
         httpProtocol |-> readCfString(cf, "httpProtocol")]

(* headers.get(name) bound to a column: the string, or null *)
HeaderOrNull(v) == IF IsStr(v) THEN v ELSE Null

(* ------------------------------------------------------------------------ *)
(* The store: table waitlist_entries, UNIQUE(email), id AUTOINCREMENT.      *)
(* ------------------------------------------------------------------------ *)
MutableColumns == {"use_case", "ip_address", "user_agent", "accept_language",
                   "cf_country", "cf_region", "cf_region_code", "cf_city",
                   "cf_postal_code", "cf_continent", "cf_timezone", "cf_colo",
                   "cf_asn", "cf_as_organization", "cf_latitude", "cf_longitude",
                   "cf_bot_score", "cf_tls_version", "cf_http_protocol", "updated_at"}

(* The row bound by the INSERT's VALUES list (?1 .. ?22), before an id. *)
BoundRow(email, payload, ipAddress, headers, cfSnapshot, nowIso) ==
    [email |-> email,
     use_case |-> IF payload.useCase.t = "undef" THEN Null ELSE payload.useCase,
     ip_address |-> ipAddress,
     user_agent |-> HeaderOrNull(headers.userAgent),
     accept_language |-> HeaderOrNull(headers.acceptLanguage),
     cf_country |-> cfSnapshot.country,
     cf_region |-> cfSnapshot.region,
     cf_region_code |-> cfSnapshot.regionCode,
     cf_city |-> cfSnapshot.city,
     cf_postal_code |-> cfSnapshot.postalCode,
     cf_continent |-> cfSnapshot.continent,
     cf_timezone |-> cfSnapshot.timezone,
     cf_colo |-> cfSnapshot.colo,
     cf_asn |-> cfSnapshot.asn,
     cf_as_organization |-> cfSnapshot.asOrganization,
     cf_latitude |-> cfSnapshot.latitude,
     cf_longitude |-> cfSnapshot.longitude,
     cf_bot_score |-> cfSnapshot.botScore,
     cf_tls_version |-> cfSnapshot.tlsVersion,
     cf_http_protocol |-> cfSnapshot.httpProtocol,
     created_at |-> nowIso,
     updated_at |-> nowIso]

(* AUTOINCREMENT: one more than the largest id ever used; rows are never   *)
(* deleted, so the largest id in the table.                                 *)
NextId(rows) ==
    IF rows = {} THEN 1
    ELSE 1 + (CHOOSE n \in {row.id : row \in rows} : \A row \in rows : row.id <= n)

WithId(bound, id) == [c \in DOMAIN bound \cup {"id"} |-> IF c = "id" THEN id ELSE bound[c]]

(* The conflicting row replaced by the new one, as INSERT OR REPLACE would. *)
ConflictUpdateReplaces(row, excluded) ==
    [c \in DOMAIN row |-> IF c = "id" THEN row[c] ELSE excluded[c]]

(* The update leaving the geo/network snapshot of the row as it was. *)
ConflictUpdateKeepsSnapshot(row, excluded) ==
    [c \in DOMAIN row |->
        IF c \in {"use_case", "ip_address", "user_agent", "accept_language", "updated_at"}
        THEN excluded[c] ELSE row[c]]

(* The update leaving the row with the address that created it. *)
ConflictUpdateKeepsIp(row, excluded) ==
    [c \in DOMAIN row |->
        IF c \in MutableColumns \ {"ip_address"} THEN excluded[c] ELSE row[c]]

(* ON CONFLICT(email) DO UPDATE SET <mutable columns> = excluded.<column> *)
ConflictUpdate(row, excluded) ==
    [c \in DOMAIN row |-> IF c \in MutableColumns THEN excluded[c] ELSE row[c]]

(* The statement as INSERT OR REPLACE into a table emptied of other rows. *)
UpsertRowsDropsOthers(rows, bound) ==
    IF \E row \in rows : row.email = bound.email
    THEN {ConflictUpdate(row, bound) : row \in {x \in rows : x.email = bound.email}}
    ELSE rows \cup {WithId(bound, NextId(rows))}

(* INSERT ... ON CONFLICT(email) DO UPDATE, one statement *)
UpsertRows(rows, bound) ==
    IF \E row \in rows : row.email = bound.email
    THEN {IF row.email = bound.email THEN ConflictUpdate(row, bound) ELSE row : row \in rows}
    ELSE rows \cup {WithId(bound, NextId(rows))}

(* The count taken over every address. *)
CountRowsAnyIp(rows, ipAddress, dayStart, dayEnd) ==
    Cardinality({row \in rows :
        /\ TextLeq(dayStart, row.created_at)
        /\ TextLeq(row.created_at, dayEnd)})

(* SELECT COUNT ... WHERE ip_address = ?1 AND created_at >= ?2 AND created_at <= ?3 *)
CountRows(rows, ipAddress, dayStart, dayEnd) ==
    Cardinality({row \in rows :
        /\ row.ip_address = ipAddress
        /\ TextLeq(dayStart, row.created_at)
        /\ TextLeq(row.created_at, dayEnd)})

(* ------------------------------------------------------------------------ *)
(* Inputs: the requests a client can send and the worker's configuration.   *)
(* ------------------------------------------------------------------------ *)
EmailU == <<"u", "@", "b", ".", "c", "c">>
EmailUMixed == <<" ", "U", "@", "B", ".", "c", "c", " ">>
EmailA == <<"a", "@", "b", ".", "c", "c">>
NotAnEmail == <<"n", "o", "p", "e">>
Hi == <<"h", "i">>
HiPadded == <<" ", "h", "i", "\t">>
Bot == <<"b", "o", "t">>
Blank == <<" ", "\t">>
LongEmail(n) == Rep("a", n - 5) \o <<"@", "b", ".", "c", "c">>

Obj(fields) == [kind |-> "object", fields |-> fields]
NotObj(kind) == [kind |-> kind, fields |-> EmptyObj]
Fields1(k1, v1) == [EmptyObj EXCEPT ![k1] = v1]
Fields2(k1, v1, k2, v2) == [EmptyObj EXCEPT ![k1] = v1, ![k2] = v2]
Fields3(k1, v1, k2, v2, k3, v3) == [EmptyObj EXCEPT ![k1] = v1, ![k2] = v2, ![k3] = v3]

Json(body) == [ctype |-> "json", body |-> body]
Form(body) == [ctype |-> "urlencoded", body |-> body]
Multipart(body) == [ctype |-> "multipart", body |-> body]
Other(body) == [ctype |-> "other", body |-> body]

BodyU == Json(Obj(Fields1("email", Str(EmailU))))
BodyUMixed == Json(Obj(Fields2("email", Str(EmailUMixed), "use_case", Str(HiPadded))))
BodyA == Form(Obj(Fields2("email", Str(EmailA), "useCase", Str(Hi))))
BodyBot == Json(Obj(Fields2("email", Str(EmailU), "website", Str(Bot))))
BodyBotInvalid == Json(Obj(Fields2("email", Str(NotAnEmail), "company", Str(Bot))))
BodyMalformed == Json(NotObj("malformed"))

IpOne == <<"1", ".", "1">>
IpTwo == <<"2", ".", "2">>
IpTwoList == <<" ", "2", ".", "2", " ", ",", "9", ".", "9">>

CfObj(f, bot) == [t |-> "obj", f |-> f, botManagement |-> bot]
EmptyCf == [k \in CfKeys |-> Undef]

(* cf-connecting-ip present (and preferred to x-forwarded-for), a populated cf *)
MetaOne ==
    [headers |-> [cfConnectingIp |-> Str(IpOne), xForwardedFor |-> Str(IpTwo),
                  userAgent |-> Str(<<"u", "a">>), acceptLanguage |-> Str(<<"e", "n">>)],
     cf |-> CfObj([EmptyCf EXCEPT !["country"] = Str(<<"B", "E">>),
                                  !["asn"] = Num(13335000),
                                  !["latitude"] = Num(50850),
                                  !["tlsVersion"] = Str(<<"1", ".", "3">>)],
                  [t |-> "obj", f |-> [score |-> Num(30700)]])]

(* only x-forwarded-for, a list; a cf with values of unexpected types *)
MetaTwo ==
    [headers |-> [cfConnectingIp |-> Undef, xForwardedFor |-> Str(IpTwoList),
                  userAgent |-> Undef, acceptLanguage |-> Str(<<"e", "n">>)],
     cf |-> CfObj([EmptyCf EXCEPT !["country"] = Str(<<>>),
                                  !["asn"] = Str(<<"1", "3", ".", "9">>),
                                  !["latitude"] = Str(<<" ", "-", "4", ".", "5">>),
                                  !["longitude"] = NonFinite,
                                  !["colo"] = Num(7000)],
                  Undef)]

(* no header and no cf at all *)
MetaNone ==
    [headers |-> [cfConnectingIp |-> Undef, xForwardedFor |-> Undef,
                  userAgent |-> Undef, acceptLanguage |-> Undef],
     cf |-> Undef]

Metas == {MetaOne, MetaTwo, MetaNone}

With(b, m) == [ctype |-> b.ctype, body |-> b.body, headers |-> m.headers, cf |-> m.cf]

Cross(bodies, metas) == {With(b, m) : b \in bodies, m \in metas}

(* The requests of the sequential specification. *)
Requests ==
    Cross({BodyU, BodyUMixed, BodyA}, {MetaOne, MetaNone})
        \cup Cross({BodyBot, BodyBotInvalid, BodyMalformed}, {MetaOne})

(* The requests of the concurrent specification. *)
ConcRequests == {With(BodyU, MetaOne), With(BodyUMixed, MetaNone), With(BodyA, MetaOne)}

(* The requests of the wide specification: the boundaries of the           *)
(* schema, the aliases, the content types.                                  *)
WideBodies ==
    { BodyU, BodyUMixed, BodyA, BodyBot, BodyBotInvalid, BodyMalformed,
      Json(Obj(Fields1("email", Str(LongEmail(EmailMaxLen))))),
      Json(Obj(Fields1("email", Str(LongEmail(EmailMaxLen + 1))))),
      Json(Obj(Fields1("email", Str(<<" ">> \o LongEmail(EmailMaxLen) \o <<" ">>)))),
      Json(Obj(EmptyObj)),
      Json(Obj(Fields1("email", Str(<<>>)))),
      Json(Obj(Fields1("email", Str(Blank)))),
      Json(Obj(Fields1("email", Num(7000)))),
      Json(Obj(Fields1("email", Null))),
      Json(Obj(Fields1("email", Str(<<"u", "@", "b">>)))),
      Json(Obj(Fields1("email", Str(<<"u", "@", "b", ".", "c">>)))),
      Json(Obj(Fields1("email", Str(<<"u", ".", ".", "a", "@", "b", ".", "c", "c">>)))),
      Json(Obj(Fields1("email", Str(<<".", "u", "@", "b", ".", "c", "c">>)))),
      Json(Obj(Fields1("email", Str(<<"u", ".", "@", "b", ".", "c", "c">>)))),
      Json(Obj(Fields1("email", Str(<<"u", "@", "a", "@", "b", ".", "c", "c">>)))),
      Json(Obj(Fields1("email", Str(<<"u", " ", "a", "@", "b", ".", "c", "c">>)))),
      Json(Obj(Fields1("email", Str(<<"u", "+", "1", "@", "a", "-", "b", ".", "c", ".", "c", "c">>)))),
      Json(Obj(Fields2("email", Str(EmailU), "useCase", Str(Rep("x", UseCaseMaxLen))))),
      Json(Obj(Fields2("email", Str(EmailU), "useCase", Str(Rep("x", UseCaseMaxLen + 1))))),
      Json(Obj(Fields2("email", Str(EmailU), "intent",
                       Str(Blank \o Rep("x", UseCaseMaxLen) \o Blank)))),
      Json(Obj(Fields2("email", Str(EmailU), "description", Str(Hi)))),
      Json(Obj(Fields2("email", Str(EmailU), "useCase", Num(7000)))),
      Json(Obj(Fields3("email", Str(EmailU), "useCase", Null, "use_case", Str(Hi)))),
      Json(Obj(Fields3("email", Str(EmailU), "useCase", Str(<<>>), "use_case", Str(Hi)))),
      Json(Obj(Fields3("email", Str(EmailU), "use_case", Str(Hi), "intent", Str(Bot)))),
      Json(Obj(Fields2("email", Str(EmailU), "website", Str(Blank)))),
      Json(Obj(Fields2("email", Str(EmailU), "website", Str(Rep("w", WebsiteMaxLen))))),
      Json(Obj(Fields2("email", Str(EmailU), "website", Str(Rep("w", WebsiteMaxLen + 1))))),
      Json(Obj(Fields2("email", Str(EmailU), "company", Str(Rep("w", WebsiteMaxLen + 1))))),
      Json(Obj(Fields3("email", Str(EmailU), "website", Num(7000), "company", Str(Bot)))),
      Json(Obj(Fields3("email", Str(EmailU), "website", Null, "company", Str(Bot)))),
      Json(Obj(Fields3("email", Str(EmailU), "website", Str(Bot),
                       "useCase", Str(Rep("x", UseCaseMaxLen + 1))))),
      Json(Obj(Fields1("website", Str(Bot)))),
      Json(NotObj("array")),
      Json(NotObj("scalar")),
      Form(Obj(Fields2("email", Str(EmailUMixed), "use_case", Str(Hi)))),
      Form(Obj(Fields2("email", Str(EmailA), "company", Str(Bot)))),
      Form(Obj(Fields2("email", Str(EmailA), "useCase", [t |-> "file", name |-> Hi]))),
      Form(Obj(Fields1("email", [t |-> "file", name |-> EmailA]))),
      Multipart(Obj(Fields1("email", Str(EmailA)))),
      Multipart(NotObj("malformed")),
      Other(Obj(Fields1("email", Str(EmailU)))) }

WideRequests == Cross(WideBodies, Metas)

(* The requests that fill the store in the wide specification. *)
SeedRequests == {With(BodyU, MetaOne), With(BodyA, MetaNone)}

(* Values of WAITLIST_RATE_LIMIT_PER_DAY *)
LimitSettings == {Str(<<"1">>), Str(<<"2">>)}
WideLimitSettings == {Undef, Str(<<"0">>), Str(<<"1">>), Str(<<" ", "2", "x">>)}

(* The clock runs from 00:00:00.000 of day 0 to 00:00:00.000 of day MaxDay. *)
ClockMs == {0, DateUTC(0, 23, 59, 59, 999).ms}
Instants == {t \in [day : 0..MaxDay, ms : ClockMs] : getTime(t) <= MaxDay * MsPerDay}

(* ------------------------------------------------------------------------ *)
(* State.                                                                   *)
(* ------------------------------------------------------------------------ *)
VARIABLES
    store,      \* the rows of waitlist_entries
    clock,      \* the current instant, what new Date() returns
    limitEnv,   \* env.WAITLIST_RATE_LIMIT_PER_DAY
    req,        \* req[r]: the r-th request, while it is being handled
    pc,         \* pc[r]: "new", "count" (COUNT awaited), "upsert" (INSERT awaited), "done"
    loc,        \* loc[r]: the handler's locals once the request passed the honeypot check
    last,       \* history: the exchange that ended most recently (request, locals,
                \* response, the row its upsert found under the email, the number
                \* of rows when it ended)
    admitted    \* history: admitted[<<ip, day>>], the 201 responses per IP and UTC day

vars == <<store, clock, limitEnv, req, pc, loc, last, admitted>>

Reqs == 1..MaxRequests
NoRequest == [ctype |-> "none"]
NoLocals == [set |-> FALSE]
NoResponse == [status |-> 0]
NoRow == [id |-> 0]

Response(status, ok, error, message, retryAfter) ==
    [status |-> status, ok |-> ok, error |-> error, message |-> message,
     retryAfter |-> retryAfter]

InvalidPayload ==
    Response(400, FALSE, "invalid_payload", "Please submit a valid email address.", Null)
HoneypotAccepted == Response(200, TRUE, "", "Thanks for your interest.", Null)
RateLimited(retryAfterSeconds) ==
    Response(429, FALSE, "rate_limited", "Rate limit reached. Please try again tomorrow.",
             Num(1000 * retryAfterSeconds))
Accepted == Response(201, TRUE, "", "You are on the waitlist.", Null)
(* an exception leaving the handler: the framework's error response *)
InternalError == Response(500, FALSE, "", "Internal Server Error", Null)

Ips == {getConnectingIp(m.headers) : m \in Metas}
Days == 0..MaxDay

InitWith(limits) ==
    /\ store = {}
    /\ clock = [day |-> 0, ms |-> 0]
    /\ limitEnv \in limits
    /\ req = [r \in Reqs |-> NoRequest]
    /\ pc = [r \in Reqs |-> "new"]
    /\ loc = [r \in Reqs |-> NoLocals]
    /\ last = [r |-> 0, request |-> NoRequest, loc |-> NoLocals, response |-> NoResponse,
               before |-> NoRow, rowsBefore |-> 0]
    /\ admitted = [k \in Ips \X Days |-> 0]

Init == InitWith(LimitSettings)

(* ------------------------------------------------------------------------ *)
(* The handler of POST /api/waitlist, one action per awaited store call.    *)
(* ------------------------------------------------------------------------ *)
(* The response leaves; the request and its locals are gone. *)
Finish(r, request, locals, response, before) ==
    /\ pc' = [pc EXCEPT ![r] = "done"]
    /\ req' = [req EXCEPT ![r] = NoRequest]
    /\ loc' = [loc EXCEPT ![r] = NoLocals]
    /\ last' = [r |-> r, request |-> request, loc |-> locals, response |-> response,
                before |-> before, rowsBefore |-> Cardinality(store)]

(* The locals of lines 53-57. *)
Locals(request, payload) ==
    [set |-> TRUE,
     payload |-> payload,
     rateLimitPerDay |-> parsePositiveInt(limitEnv, DefaultRateLimitPerDay),
     now |-> clock,
     dayStart |-> startOfUtcDayIso(clock),
     dayEnd |-> endOfUtcDayIso(clock),
     ipAddress |-> getConnectingIp(request.headers)]

(* The handler with the honeypot check ahead of validation. *)
HandleHoneypotFirst(r, request) ==
    LET parsedBody == parseRequestBody(request)
        normalized == normalizePayload(parsedBody.raw)
        parsedPayload == safeParse(normalized)
    IN  /\ IF parsedBody.threw
           THEN Finish(r, request, NoLocals, InternalError, NoRow)
           ELSE IF IsStr(normalized.website)
           THEN Finish(r, request, NoLocals, HoneypotAccepted, NoRow)
           ELSE IF ~parsedPayload.success
           THEN Finish(r, request, NoLocals, InvalidPayload, NoRow)
           ELSE /\ req' = [req EXCEPT ![r] = request]
                /\ loc' = [loc EXCEPT ![r] = Locals(request, parsedPayload.data)]
                /\ pc' = [pc EXCEPT ![r] = "count"]
                /\ UNCHANGED last
        /\ UNCHANGED <<store, clock, limitEnv, admitted>>

(* The handler without its honeypot check. *)
HandleIgnoresHoneypot(r, request) ==
    LET parsedBody == parseRequestBody(request)
        parsedPayload == safeParse(normalizePayload(parsedBody.raw))
    IN  /\ IF parsedBody.threw
           THEN Finish(r, request, NoLocals, InternalError, NoRow)
           ELSE IF ~parsedPayload.success
           THEN Finish(r, request, NoLocals, InvalidPayload, NoRow)
           ELSE /\ req' = [req EXCEPT ![r] = request]
                /\ loc' = [loc EXCEPT ![r] = Locals(request, parsedPayload.data)]
                /\ pc' = [pc EXCEPT ![r] = "count"]
                /\ UNCHANGED last
        /\ UNCHANGED <<store, clock, limitEnv, admitted>>

(* Lines 31-57: parse, normalise, validate, honeypot check, then the locals *)
(* the COUNT query is bound to.                                             *)
Handle(r, request) ==
    LET parsedBody == parseRequestBody(request)
        parsedPayload == safeParse(normalizePayload(parsedBody.raw))
        payload == parsedPayload.data
    IN  /\ IF parsedBody.threw
           THEN Finish(r, request, NoLocals, InternalError, NoRow)
           ELSE IF ~parsedPayload.success
           THEN Finish(r, request, NoLocals, InvalidPayload, NoRow)
           ELSE IF IsStr(payload.website) /\ Len(payload.website.s) > 0
           THEN Finish(r, request, NoLocals, HoneypotAccepted, NoRow)
           ELSE /\ req' = [req EXCEPT ![r] = request]
                /\ loc' = [loc EXCEPT ![r] = Locals(request, payload)]
                /\ pc' = [pc EXCEPT ![r] = "count"]
                /\ UNCHANGED last
        /\ UNCHANGED <<store, clock, limitEnv, admitted>>

(* Requests are numbered in their order of arrival. *)
Arrives(r) ==
    /\ pc[r] = "new"
    /\ \A q \in Reqs : q < r => pc[q] # "new"

InFlight == {q \in Reqs : pc[q] \in {"count", "upsert"}}

(* A request arrives when every earlier one has been answered. *)
Receive(r) ==
    /\ Arrives(r)
    /\ InFlight = {}
    /\ \E request \in Requests : Handle(r, request)

(* A request arrives while others are being handled. *)
ReceiveConc(r) ==
    /\ r <= MaxOverlap
    /\ Arrives(r)
    /\ \E request \in ConcRequests : Handle(r, request)

(* A request of any shape arrives first, or second after one of the        *)
(* requests that fill the store has been answered.                          *)
ReceiveWide(r) ==
    /\ r <= 2
    /\ Arrives(r)
    /\ InFlight = {}
    /\ r = 2 => last.request \in SeedRequests
    /\ \E request \in WideRequests : Handle(r, request)

(* The row stored under an email, if any. *)
RowOf(rows, email) ==
    IF \E row \in rows : row.email = email
    THEN CHOOSE row \in rows : row.email = email
    ELSE NoRow

(* The COUNT query and the upsert as one store step. *)
CountQueryThenUpsert(r) ==
    LET submissionCount ==
            CountRows(store, loc[r].ipAddress, loc[r].dayStart, loc[r].dayEnd)
        email == ToLowerCase(loc[r].payload.email.s)
    IN  /\ pc[r] = "count"
        /\ IF submissionCount >= loc[r].rateLimitPerDay
           THEN /\ Finish(r, req[r], loc[r],
                          RateLimited(secondsUntilNextUtcDay(loc[r].now)), NoRow)
                /\ UNCHANGED <<store, admitted>>
           ELSE /\ store' = UpsertRows(store,
                                       BoundRow(email, loc[r].payload, loc[r].ipAddress,
                                                req[r].headers, getCfSnapshot(req[r]),
                                                toISOString(loc[r].now)))
                /\ Finish(r, req[r], loc[r], Accepted, RowOf(store, email))
                /\ admitted' = [admitted EXCEPT
                                   ![<<loc[r].ipAddress, loc[r].now.day>>] = @ + 1]
        /\ UNCHANGED <<clock, limitEnv>>

(* The COUNT query with its result ignored. *)
CountQueryAdmitsAll(r) ==
    /\ pc[r] = "count"
    /\ pc' = [pc EXCEPT ![r] = "upsert"]
    /\ UNCHANGED <<req, loc, last, store, clock, limitEnv, admitted>>

(* The decision with > in place of >=. *)
CountQueryExclusive(r) ==
    /\ pc[r] = "count"
    /\ LET submissionCount ==
               CountRows(store, loc[r].ipAddress, loc[r].dayStart, loc[r].dayEnd)
       IN  IF submissionCount > loc[r].rateLimitPerDay
           THEN Finish(r, req[r], loc[r], RateLimited(secondsUntilNextUtcDay(loc[r].now)),
                       NoRow)
           ELSE pc' = [pc EXCEPT ![r] = "upsert"] /\ UNCHANGED <<req, loc, last>>
    /\ UNCHANGED <<store, clock, limitEnv, admitted>>

(* Lines 59-81: the COUNT query runs in the store and its result decides.   *)
CountQuery(r) ==
    /\ pc[r] = "count"
    /\ LET submissionCount ==
               CountRows(store, loc[r].ipAddress, loc[r].dayStart, loc[r].dayEnd)
       IN  IF submissionCount >= loc[r].rateLimitPerDay
           THEN Finish(r, req[r], loc[r], RateLimited(secondsUntilNextUtcDay(loc[r].now)),
                       NoRow)
           ELSE pc' = [pc EXCEPT ![r] = "upsert"] /\ UNCHANGED <<req, loc, last>>
    /\ UNCHANGED <<store, clock, limitEnv, admitted>>

(* Lines 83-172: the upsert runs in the store, then 201.                    *)
Upsert(r) ==
    LET email == ToLowerCase(loc[r].payload.email.s)
    IN  /\ pc[r] = "upsert"
        /\ store' = UpsertRows(store,
                               BoundRow(email, loc[r].payload, loc[r].ipAddress,
                                        req[r].headers, getCfSnapshot(req[r]),
                                        toISOString(loc[r].now)))
        /\ Finish(r, req[r], loc[r], Accepted, RowOf(store, email))
        /\ admitted' = [admitted EXCEPT ![<<loc[r].ipAddress, loc[r].now.day>>] = @ + 1]
        /\ UNCHANGED <<clock, limitEnv>>

(* A rejected store call caught and passed over: a failed count read as no *)
(* rows, a failed upsert answered as if it had written.                     *)
StoreFailureSwallowed(r) ==
    /\ pc[r] \in {"count", "upsert"}
    /\ IF pc[r] = "count"
       THEN pc' = [pc EXCEPT ![r] = "upsert"] /\ UNCHANGED <<req, loc, last>>
       ELSE Finish(r, req[r], loc[r], Accepted, NoRow)
    /\ UNCHANGED <<store, clock, limitEnv, admitted>>

(* A store call rejects: nothing catches it, the request ends in an error.  *)
StoreFailure(r) ==
    /\ pc[r] \in {"count", "upsert"}
    /\ Finish(r, req[r], loc[r], InternalError, NoRow)
    /\ UNCHANGED <<store, clock, limitEnv, admitted>>

(* Time passes. *)
Tick ==
    /\ \E t \in Instants : getTime(t) > getTime(clock) /\ clock' = t
    /\ UNCHANGED <<store, limitEnv, req, pc, loc, last, admitted>>

(* Requests handled one at a time. *)
Next ==
    \/ \E r \in Reqs : Receive(r)
    \/ \E r \in Reqs : CountQuery(r)
    \/ \E r \in Reqs : Upsert(r)
    \/ \E r \in Reqs : StoreFailure(r)
    \/ Tick

Spec == Init /\ [][Next]_vars

(* MaxOverlap requests, overlapping in every way. *)
NextConc ==
    \/ \E r \in Reqs : ReceiveConc(r)
    \/ \E r \in Reqs : CountQuery(r)
    \/ \E r \in Reqs : Upsert(r)
    \/ \E r \in Reqs : StoreFailure(r)
    \/ Tick

SpecConc == Init /\ [][NextConc]_vars

(* A request of any shape, into an empty store or a filled one. *)
NextWide ==
    \/ \E r \in Reqs : ReceiveWide(r)
    \/ \E r \in Reqs : CountQuery(r)
    \/ \E r \in Reqs : Upsert(r)
    \/ \E r \in Reqs : StoreFailure(r)
    \/ Tick

SpecWide == InitWith(WideLimitSettings) /\ [][NextWide]_vars

(* ------------------------------------------------------------------------ *)
(* Vocabulary of the properties.                                            *)
(* ------------------------------------------------------------------------ *)
Ceiling == parsePositiveInt(limitEnv, DefaultRateLimitPerDay)

IsLowercase(s) == \A i \in 1..Len(s) : s[i] \notin UpperChars

CasePairs == {<<"A", "a">>, <<"B", "b">>, <<"C", "c">>, <<"U", "u">>}

EqualIgnoringCase(a, b) ==
    /\ Len(a) = Len(b)
    /\ \A i \in 1..Len(a) :
          a[i] = b[i] \/ <<a[i], b[i]>> \in CasePairs \/ <<b[i], a[i]>> \in CasePairs

(* The UTC day of a stored timestamp is the first field of its ISO string. *)
RowsOfIpOnDay(rows, ip, day) ==
    {row \in rows : row.ip_address = ip /\ row.created_at[1] = day}

(* The last exchange passed validation and the honeypot check. *)
LastSubmitted == last.loc.set
LastStatus == last.response.status
LastEmailRows == {row \in store : EqualIgnoringCase(row.email, last.loc.payload.email.s)}

(* The last exchange was accepted and found a row under its email. *)
Resubmitted == LastSubmitted /\ LastStatus = 201 /\ last.before # NoRow

(* The table as it was when the last exchange's store calls ran. *)
StoreBeforeLast ==
    IF LastSubmitted /\ LastStatus = 201
    THEN (store \ LastEmailRows) \cup (IF last.before = NoRow THEN {} ELSE {last.before})
    ELSE store

(* ------------------------------------------------------------------------ *)
(* C1: the store holds at most one row per lowercase email: every stored    *)
(* email is lowercase, no two rows have emails equal up to letter case, and *)
(* an accepted submission is held by the one row whose email equals its     *)
(* own up to letter case.                                                   *)
(* ------------------------------------------------------------------------ *)
C1_OneRowPerLowercaseEmail ==
    /\ \A row \in store : IsLowercase(row.email)
    /\ \A row1, row2 \in store : EqualIgnoringCase(row1.email, row2.email) => row1 = row2
    /\ (LastSubmitted /\ LastStatus = 201) => Cardinality(LastEmailRows) = 1

(* A mixed-case submission accepted into the row that a lowercase           *)
(* submission (the one without a use case) wrote last.                      *)
C1_Witness ==
    /\ Resubmitted
    /\ ~IsLowercase(last.loc.payload.email.s)
    /\ last.before.use_case = Null
    /\ Cardinality(LastEmailRows) = 1
    /\ Cardinality(store) = 1

(* ------------------------------------------------------------------------ *)
(* C2: an accepted resubmission of an email that has a row keeps the row's  *)
(* id and created_at, sets updated_at to the resubmission's instant, and    *)
(* overwrites every mutable column with the new submission's value (null    *)
(* where it has none); no second row appears.                               *)
(* ------------------------------------------------------------------------ *)
C2_ResubmissionOverwrites ==
    Resubmitted =>
        /\ Cardinality(store) = last.rowsBefore
        /\ Cardinality(LastEmailRows) = 1
        /\ \A row \in LastEmailRows :
              LET snapshot == getCfSnapshot(last.request)
                  headers == last.request.headers
              IN  /\ row.id = last.before.id
                  /\ row.email = last.before.email
                  /\ row.created_at = last.before.created_at
                  /\ row.updated_at = toISOString(last.loc.now)
                  /\ row.use_case = (IF IsStr(last.loc.payload.useCase)
                                     THEN last.loc.payload.useCase ELSE Null)
                  /\ row.ip_address = last.loc.ipAddress
                  /\ row.user_agent = (IF IsStr(headers.userAgent)
                                       THEN headers.userAgent ELSE Null)
                  /\ row.accept_language = (IF IsStr(headers.acceptLanguage)
                                            THEN headers.acceptLanguage ELSE Null)
                  /\ row.cf_country = snapshot.country
                  /\ row.cf_region = snapshot.region
                  /\ row.cf_region_code = snapshot.regionCode
                  /\ row.cf_city = snapshot.city
                  /\ row.cf_postal_code = snapshot.postalCode
                  /\ row.cf_continent = snapshot.continent
                  /\ row.cf_timezone = snapshot.timezone
                  /\ row.cf_colo = snapshot.colo
                  /\ row.cf_asn = snapshot.asn
                  /\ row.cf_as_organization = snapshot.asOrganization
                  /\ row.cf_latitude = snapshot.latitude
                  /\ row.cf_longitude = snapshot.longitude
                  /\ row.cf_bot_score = snapshot.botScore
                  /\ row.cf_tls_version = snapshot.tlsVersion
                  /\ row.cf_http_protocol = snapshot.httpProtocol

(* A resubmission at a later instant, from another address, that replaced a *)
(* use case, a user agent and a country by null.                            *)
C2_Witness ==
    /\ Resubmitted
    /\ last.before.created_at # toISOString(last.loc.now)
    /\ last.before.ip_address # last.loc.ipAddress
    /\ last.before.use_case # Null
    /\ last.before.user_agent # Null
    /\ last.before.cf_country # Null
    /\ \A row \in LastEmailRows :
          row.use_case = Null /\ row.user_agent = Null /\ row.cf_country = Null

(* The 201 responses given to the last exchange's address, in the UTC day   *)
(* of its instant, before the last exchange itself.                         *)
AdmittedBeforeLast ==
    admitted[<<last.loc.ipAddress, last.loc.now.day>>]
        - (IF LastStatus = 201 THEN 1 ELSE 0)

(* ------------------------------------------------------------------------ *)
(* C3: the limiter admits at most `ceiling` submissions per IP per UTC day: *)
(* after `ceiling` accepted submissions from an address within a UTC day,   *)
(* the next valid submission from that address in that day is answered 429, *)
(* whatever emails the accepted ones carried (store calls succeeding).      *)
(* ------------------------------------------------------------------------ *)
C3_CeilingPerIpPerDay ==
    (LastSubmitted /\ LastStatus # 500 /\ AdmittedBeforeLast >= Ceiling)
        => LastStatus = 429

(* ------------------------------------------------------------------------ *)
(* C4: an accepted resubmission of an email stored earlier the same UTC day *)
(* raises by one the number the limiter compares with the ceiling for the   *)
(* resubmitting address.                                                    *)
(* ------------------------------------------------------------------------ *)
C4_ResubmissionCounts ==
    (Resubmitted /\ last.before.created_at[1] = last.loc.now.day)
        => Cardinality(RowsOfIpOnDay(store, last.loc.ipAddress, last.loc.now.day))
             = Cardinality(RowsOfIpOnDay(StoreBeforeLast, last.loc.ipAddress,
                                         last.loc.now.day)) + 1

(* ------------------------------------------------------------------------ *)
(* What a request carries, read off its body as the normaliser reads it.    *)
(* ------------------------------------------------------------------------ *)
Normalized(request) == normalizePayload(parseRequestBody(request).raw)

BodyThrew(request) == parseRequestBody(request).threw

(* The honeypot value (website, else company) is a string that is not blank. *)
HoneypotFilled(request) == IsStr(Normalized(request).website)

(* The failures of validation: no email, an email that is no address or is  *)
(* over 320 characters, a use case over 1200, a honeypot value over 200.    *)
PayloadInvalid(request) ==
    LET n == Normalized(request)
    IN  \/ ~IsStr(n.email)
        \/ IsStr(n.email) /\ (~IsEmail(n.email.s) \/ Len(n.email.s) > 320)
        \/ IsStr(n.useCase) /\ Len(n.useCase.s) > 1200
        \/ IsStr(n.website) /\ Len(n.website.s) > 200

(* An exchange ended in this step. *)
Ended == last'.r # last.r

(* ------------------------------------------------------------------------ *)
(* C5, as stated: a request with a filled honeypot never changes the store  *)
(* and is always answered 200 "Thanks for your interest.", whether or not   *)
(* its email or any other field is valid.                                   *)
(* ------------------------------------------------------------------------ *)
C5_HoneypotAlways200 ==
    [][(Ended /\ HoneypotFilled(last'.request))
          => (store' = store /\ last'.response = HoneypotAccepted)]_vars

(* ------------------------------------------------------------------------ *)
(* C5, amended: a request with a filled honeypot never changes the store;   *)
(* it is answered 200 "Thanks for your interest." when its payload passes   *)
(* validation and 400 invalid_payload when it does not.                     *)
(* ------------------------------------------------------------------------ *)
C5_HoneypotNeverStores ==
    [][(Ended /\ HoneypotFilled(last'.request))
          => /\ store' = store
             /\ admitted' = admitted
             /\ last'.response = (IF PayloadInvalid(last'.request)
                                  THEN InvalidPayload ELSE HoneypotAccepted)]_vars

(* A filled honeypot with an invalid email answered 400, the store filled. *)
C5_Witness ==
    /\ last.r # 0
    /\ HoneypotFilled(last.request)
    /\ IsStr(Normalized(last.request).email)
    /\ ~IsEmail(Normalized(last.request).email.s)
    /\ LastStatus = 400
    /\ store # {}
    /\ Cardinality(store) = last.rowsBefore

(* ------------------------------------------------------------------------ *)
(* C6: a request that passes validation and has a filled honeypot is        *)
(* answered 200 in the step it arrives in, so without a COUNT query, with   *)
(* the store and every address's admissions unchanged, also when its        *)
(* address is at the ceiling.                                               *)
(* ------------------------------------------------------------------------ *)
C6_HoneypotSkipsLimiter ==
    [][(Ended /\ HoneypotFilled(last'.request) /\ ~PayloadInvalid(last'.request))
          => /\ last'.response = HoneypotAccepted
             /\ pc[last'.r] = "new"
             /\ ~last'.loc.set
             /\ store' = store
             /\ admitted' = admitted]_vars

(* A honeypot request answered 200 while its address is at the ceiling. *)
C6_Witness ==
    /\ last.r # 0
    /\ HoneypotFilled(last.request)
    /\ LastStatus = 200
    /\ Cardinality(RowsOfIpOnDay(store, getConnectingIp(last.request.headers), clock.day))
         >= Ceiling

(* ------------------------------------------------------------------------ *)
(* First-time submissions.                                                  *)
(* ------------------------------------------------------------------------ *)
(* The request carries a valid email of at most 320 characters, a use case  *)
(* of at most 1200 if any, and no honeypot value.                           *)
ValidSubmission(request) ==
    LET n == Normalized(request)
    IN  /\ ~BodyThrew(request)
        /\ IsStr(n.email) /\ IsEmail(n.email.s) /\ Len(n.email.s) <= 320
        /\ IsStr(n.useCase) => Len(n.useCase.s) <= 1200
        /\ ~IsStr(n.website)

(* No row existed under the last exchange's email when its store calls ran. *)
FirstTime ==
    /\ LastSubmitted
    /\ last.before = NoRow
    /\ LastStatus # 201 => LastEmailRows = {}

(* ------------------------------------------------------------------------ *)
(* C7, as stated: a first-time submission of a valid email and use case is  *)
(* answered 201, and one row then exists for the email with created_at      *)
(* equal to updated_at (store calls succeeding).                            *)
(* ------------------------------------------------------------------------ *)
C7_FirstTimeAlways201 ==
    (last.r # 0 /\ ValidSubmission(last.request) /\ FirstTime /\ LastStatus # 500)
        => /\ LastStatus = 201
           /\ Cardinality(LastEmailRows) = 1
           /\ \A row \in LastEmailRows : row.created_at = row.updated_at

(* ------------------------------------------------------------------------ *)
(* C7, amended: a valid submission reaches the limiter; a first-time one is *)
(* answered 201, one row then existing for the email with created_at and    *)
(* updated_at both the submission's instant, unless its address already has *)
(* `ceiling` rows created in the current UTC day: then it is answered 429   *)
(* and no row exists for the email (store calls succeeding).                *)
(* ------------------------------------------------------------------------ *)
C7_FirstTimeUnlessLimited ==
    /\ (last.r # 0 /\ ValidSubmission(last.request)) => LastSubmitted
    /\ (FirstTime /\ LastStatus # 500) =>
          IF Cardinality(RowsOfIpOnDay(StoreBeforeLast, last.loc.ipAddress,
                                       last.loc.now.day)) >= Ceiling
          THEN LastStatus = 429 /\ LastEmailRows = {}
          ELSE /\ LastStatus = 201
               /\ Cardinality(LastEmailRows) = 1
               /\ Cardinality(store) = last.rowsBefore + 1
               /\ \A row \in LastEmailRows :
                     /\ row.created_at = toISOString(last.loc.now)
                     /\ row.updated_at = row.created_at

(* A first-time email of exactly 320 characters, sent with surrounding      *)
(* blanks, accepted into a store that held another row.                     *)
C7_Witness ==
    /\ FirstTime
    /\ LastStatus = 201
    /\ last.rowsBefore = 1
    /\ Len(last.loc.payload.email.s) = 320
    /\ Len(last.request.body.fields["email"].s) = 322
    /\ \E row \in LastEmailRows : row.created_at = row.updated_at /\ Len(row.email) = 320

C9_DecisionByOwnIpRows ==
    (LastSubmitted /\ LastStatus \in {201, 429}) =>
        (LastStatus = 429
            <=> Cardinality(RowsOfIpOnDay(StoreBeforeLast, last.loc.ipAddress,
                                          last.loc.now.day)) >= Ceiling)

(* A submission accepted while another address is at the ceiling that day. *)
C9_Witness ==
    /\ LastSubmitted
    /\ LastStatus = 201
    /\ \E ip \in Ips :
          /\ ip # last.loc.ipAddress
          /\ Cardinality(RowsOfIpOnDay(StoreBeforeLast, ip, last.loc.now.day)) >= Ceiling

(* ------------------------------------------------------------------------ *)
(* C10: the limiter's window is the UTC calendar day: the bounds a request  *)
(* binds to its COUNT query select a row exactly when the row was created   *)
(* in the UTC day of the request's instant; so an address none of whose     *)
(* rows was created in that day is not answered 429, however many rows it   *)
(* got the day before.                                                      *)
(* ------------------------------------------------------------------------ *)
InWindow(locals, row) ==
    TextLeq(locals.dayStart, row.created_at) /\ TextLeq(row.created_at, locals.dayEnd)

C10_WindowIsUtcDay ==
    /\ \A locals \in {loc[r] : r \in Reqs} \cup {last.loc} :
          locals.set =>
             \A row \in store : InWindow(locals, row) <=> row.created_at[1] = locals.now.day
    /\ (LastSubmitted /\ LastStatus = 429) =>
          RowsOfIpOnDay(store, last.loc.ipAddress, last.loc.now.day) # {}

(* An address at the ceiling on day 0, by a row created in the day's last   *)
(* millisecond, is admitted at 00:00:00.000 of day 1.                       *)
C10_Witness ==
    /\ LastSubmitted
    /\ LastStatus = 201
    /\ last.loc.now = [day |-> 1, ms |-> 0]
    /\ Cardinality(RowsOfIpOnDay(StoreBeforeLast, last.loc.ipAddress, 0)) >= Ceiling
    /\ \E row \in RowsOfIpOnDay(StoreBeforeLast, last.loc.ipAddress, 0) :
          row.created_at = toISOString(DateUTC(0, 23, 59, 59, 999))

(* ------------------------------------------------------------------------ *)
(* The limiter at instants around the second and day boundaries.            *)
(* ------------------------------------------------------------------------ *)
FineMs == {0, 1, 999, 1000, 1001, DateUTC(0, 12, 0, 0, 0).ms,
           DateUTC(0, 23, 59, 58, 999).ms, DateUTC(0, 23, 59, 59, 0).ms,
           DateUTC(0, 23, 59, 59, 1).ms, DateUTC(0, 23, 59, 59, 999).ms}
FineInstants == {t \in [day : 0..MaxDay, ms : FineMs] : getTime(t) <= MaxDay * MsPerDay}
FineLimitSettings == {Str(<<"1">>)}
FineRequests == {With(BodyU, MetaOne), With(BodyA, MetaOne), With(BodyA, MetaNone)}

(* A first request and a second arrive, one after the other is answered. *)
ReceiveFine(r) ==
    /\ r <= 2
    /\ Arrives(r)
    /\ InFlight = {}
    /\ \E request \in FineRequests : Handle(r, request)

(* Time passes, to any of the instants. *)
TickFine ==
    /\ \E t \in FineInstants : getTime(t) > getTime(clock) /\ clock' = t
    /\ UNCHANGED <<store, limitEnv, req, pc, loc, last, admitted>>

NextFine ==
    \/ \E r \in Reqs : ReceiveFine(r)
    \/ \E r \in Reqs : CountQuery(r)
    \/ \E r \in Reqs : Upsert(r)
    \/ \E r \in Reqs : StoreFailure(r)
    \/ TickFine

SpecFine == InitWith(FineLimitSettings) /\ [][NextFine]_vars

(* ------------------------------------------------------------------------ *)
(* C11: every 429 carries a Retry-After equal to the whole seconds, rounded *)
(* up, from the request's instant to the next UTC midnight, an integer      *)
(* between 1 and 86400; the 429 leaves the store unchanged.                 *)
(* ------------------------------------------------------------------------ *)
C11_RetryAfterToMidnight ==
    [][(Ended /\ last'.response.status = 429)
          => LET left == 86400000 - last'.loc.now.ms
                 n == last'.response.retryAfter.milli \div 1000
             IN  /\ last'.response.retryAfter = Num(1000 * n)
                 /\ n \in 1..86400
                 /\ 1000 * n >= left
                 /\ 1000 * (n - 1) < left
                 /\ last'.response.error = "rate_limited"
                 /\ store' = store]_vars

(* A 429 in the last millisecond of a day: one second to wait. *)
C11_Witness ==
    /\ LastStatus = 429
    /\ last.loc.now = [day |-> 0, ms |-> 86399999]
    /\ last.response.retryAfter = Num(1000)
    /\ store # {}

(* ------------------------------------------------------------------------ *)
(* C12: no race window between the count and the insert of one requester:   *)
(* when an address has exactly one slot left under the ceiling, two of its  *)
(* requests never both stand past the count check with their writes ahead.  *)
(* ------------------------------------------------------------------------ *)
C12_NoRaceWindow ==
    \A q \in Reqs : \A r \in Reqs :
        (/\ q # r
         /\ pc[q] = "upsert" /\ pc[r] = "upsert"
         /\ loc[q].ipAddress = loc[r].ipAddress
         /\ loc[q].now.day = loc[r].now.day)
        => Cardinality(RowsOfIpOnDay(store, loc[q].ipAddress, loc[q].now.day))
             # Ceiling - 1

(* ------------------------------------------------------------------------ *)
(* C13: the count query and the upsert of a request are two store steps:    *)
(* the step in which a request's count is answered writes nothing, and the  *)
(* store changes only in the later step of a request that passed its count. *)
(* Overlapping requests of one address with distinct new emails can thus    *)
(* all be admitted past the ceiling (the witness).                          *)
(* ------------------------------------------------------------------------ *)
C13_CountThenUpsertSeparately ==
    [][/\ \A r \in Reqs : (pc[r] = "count" /\ pc'[r] # "count") => store' = store
       /\ store' # store =>
             \E r \in Reqs : /\ pc[r] = "upsert" /\ pc'[r] = "done"
                             /\ last'.r = r /\ last'.response.status = 201]_vars

(* More 201 responses and more rows of the day for an address than its     *)
(* ceiling.                                                                 *)
C13_Witness ==
    \E ip \in Ips :
        /\ admitted[<<ip, clock.day>>] > Ceiling
        /\ Cardinality(RowsOfIpOnDay(store, ip, clock.day)) > Ceiling

(* ------------------------------------------------------------------------ *)
(* The mutable columns as the last exchange's submission gives them.        *)
(* ------------------------------------------------------------------------ *)
OrNull(v) == IF IsStr(v) THEN v ELSE Null

LastColumns ==
    LET snapshot == getCfSnapshot(last.request)
    IN  [use_case |-> OrNull(last.loc.payload.useCase),
         ip_address |-> last.loc.ipAddress,
         user_agent |-> OrNull(last.request.headers.userAgent),
         accept_language |-> OrNull(last.request.headers.acceptLanguage),
         cf_country |-> snapshot.country,
         cf_region |-> snapshot.region,
         cf_region_code |-> snapshot.regionCode,
         cf_city |-> snapshot.city,
         cf_postal_code |-> snapshot.postalCode,
         cf_continent |-> snapshot.continent,
         cf_timezone |-> snapshot.timezone,
         cf_colo |-> snapshot.colo,
         cf_asn |-> snapshot.asn,
         cf_as_organization |-> snapshot.asOrganization,
         cf_latitude |-> snapshot.latitude,
         cf_longitude |-> snapshot.longitude,
         cf_bot_score |-> snapshot.botScore,
         cf_tls_version |-> snapshot.tlsVersion,
         cf_http_protocol |-> snapshot.httpProtocol,
         updated_at |-> toISOString(last.loc.now)]

(* ------------------------------------------------------------------------ *)
(* C14: the upsert is one store step: however accepted submissions of one   *)
(* lowercase email interleave, after each upsert the email has exactly one  *)
(* row, whose mutable columns all are those of the submission whose upsert  *)
(* ran last, and whose id and created_at are those the first upsert gave.   *)
(* ------------------------------------------------------------------------ *)
C14_UpsertIsAtomic ==
    (LastSubmitted /\ LastStatus = 201) =>
        /\ Cardinality(LastEmailRows) = 1
        /\ \A row \in LastEmailRows :
              /\ \A c \in DOMAIN LastColumns : row[c] = LastColumns[c]
              /\ IF last.before = NoRow
                 THEN /\ row.created_at = toISOString(last.loc.now)
                      /\ \A other \in store : other.id <= row.id
                 ELSE /\ row.created_at = last.before.created_at
                      /\ row.id = last.before.id

(* Two accepted submissions of one email overlapped: the one whose upsert   *)
(* ran last had read its instant before the other read its own; they       *)
(* differ in address, headers, snapshot and use case.                       *)
C14_Witness ==
    /\ Resubmitted
    /\ TextLess(toISOString(last.loc.now), last.before.updated_at)
    /\ last.before.ip_address # last.loc.ipAddress
    /\ last.before.cf_country # LastColumns.cf_country
    /\ last.before.user_agent # LastColumns.user_agent

(* ------------------------------------------------------------------------ *)
(* The stages of a request, and what a step of the handler may do.          *)
(* ------------------------------------------------------------------------ *)
StageOrder == {<<"new", "count">>, <<"new", "done">>, <<"count", "upsert">>,
               <<"count", "done">>, <<"upsert", "done">>}

(* The request r ends in this step. *)
Ends(r) == pc[r] # "done" /\ pc'[r] = "done"

(* Order of the stages, one count and one upsert at most, the upsert only   *)
(* after the request's own count was below the ceiling, the store changed   *)
(* only by a request answered 201.                                          *)
OrderedStep(r) ==
    /\ pc'[r] # pc[r] => <<pc[r], pc'[r]>> \in StageOrder
    /\ Ends(r) => last'.r = r
    /\ (pc[r] = "count" /\ pc'[r] = "upsert") =>
          /\ Cardinality(RowsOfIpOnDay(store, loc[r].ipAddress, loc[r].now.day)) < Ceiling
          /\ store' = store
    /\ (Ends(r) /\ last'.response.status # 201) => store' = store
    /\ (Ends(r) /\ last'.response.status = 201) => pc[r] = "upsert"
    /\ (Ends(r) /\ last'.response.status = 429) => pc[r] = "count"
    /\ (Ends(r) /\ last'.response.status = 400) =>
          pc[r] = "new" /\ PayloadInvalid(last'.request)
    /\ (Ends(r) /\ last'.response.status = 200) =>
          /\ pc[r] = "new"
          /\ ~PayloadInvalid(last'.request) /\ HoneypotFilled(last'.request)

(* ------------------------------------------------------------------------ *)
(* C15, as stated: every request goes validate, honeypot check, count,      *)
(* upsert, response in that order and ends in one of 400, 200, 429, 201;    *)
(* at most one count and one upsert, the upsert only after its own count    *)
(* was below the ceiling; only a request answered 201 changes the store.    *)
(* ------------------------------------------------------------------------ *)
C15_FixedOrderFourEndings ==
    [][/\ \A r \in Reqs :
             /\ OrderedStep(r)
             /\ Ends(r) => last'.response.status \in {400, 200, 429, 201}
       /\ store' # store => \E r \in Reqs : Ends(r) /\ last'.response.status = 201]_vars

(* ------------------------------------------------------------------------ *)
(* C15, amended: the same order and the same four answers, or the error     *)
(* response of the runtime when reading the body throws (before validation) *)
(* or a store call rejects (at the count or at the upsert); a request that  *)
(* ends in the error leaves the store unchanged.                            *)
(* ------------------------------------------------------------------------ *)
C15_FixedOrderOrError ==
    [][/\ \A r \in Reqs :
             /\ OrderedStep(r)
             /\ Ends(r) => last'.response.status \in {400, 200, 429, 201, 500}
             /\ (Ends(r) /\ last'.response.status = 500) =>
                   IF pc[r] = "new" THEN BodyThrew(last'.request)
                   ELSE pc[r] \in {"count", "upsert"}
             /\ (Ends(r) /\ pc[r] = "new") =>
                   (BodyThrew(last'.request) <=> last'.response.status = 500)
       /\ store' # store => \E r \in Reqs : Ends(r) /\ last'.response.status = 201]_vars

(* A second request answered 429 after its count, the first one's row       *)
(* stored.                                                                  *)
C15_Witness ==
    /\ last.r = 2
    /\ LastStatus = 429
    /\ pc[1] = "done" /\ pc[2] = "done"
    /\ Cardinality(store) = 1

(* ------------------------------------------------------------------------ *)
(* C16: the handler never deletes: in every step the stored emails only     *)
(* grow, by the lowercase email of a request answered 201 in that step and  *)
(* by nothing else, and the rows are as many as the stored emails; so the   *)
(* rows are always as many as the distinct lowercase emails answered 201.   *)
(* ------------------------------------------------------------------------ *)
StoredEmails(rows) == {row.email : row \in rows}

C16_NeverDeletes ==
    [][/\ StoredEmails(store) \subseteq StoredEmails(store')
       /\ Cardinality(store') = Cardinality(StoredEmails(store'))
       /\ IF Ended /\ last'.response.status = 201
          THEN \E e \in StoredEmails(store') :
                  /\ EqualIgnoringCase(e, last'.loc.payload.email.s)
                  /\ StoredEmails(store') = StoredEmails(store) \cup {e}
          ELSE StoredEmails(store') = StoredEmails(store)]_vars

(* Three requests answered 201, two of them for one email: two rows. *)
C16_Witness ==
    /\ \A r \in Reqs : pc[r] = "done"
    /\ Resubmitted
    /\ Cardinality(store) = 2
    /\ \E ip \in Ips : admitted[<<ip, 0>>] + admitted[<<ip, 1>>] = 3

(* ------------------------------------------------------------------------ *)
(* C17: a store-call failure is neither caught nor retried: a request whose *)
(* count query fails ends in the error without reaching its upsert, one     *)
(* whose upsert fails ends in the error with the store unchanged and no     *)
(* 201; an ended request makes no further store call, and a 201 is only     *)
(* given with the row written.                                              *)
(* ------------------------------------------------------------------------ *)
C17_StoreFailurePropagates ==
    [][\A r \in Reqs :
          /\ pc[r] = "done" => pc'[r] = "done"
          /\ (pc[r] = "count" /\ pc'[r] = "upsert") =>
                Cardinality(RowsOfIpOnDay(store, loc[r].ipAddress, loc[r].now.day))
                    < Ceiling
          /\ (pc[r] \in {"count", "upsert"} /\ Ends(r)
                /\ last'.response.status = 500) =>
                /\ store' = store
                /\ admitted' = admitted
                /\ last'.response = InternalError
          /\ (Ends(r) /\ last'.response.status = 201) =>
                \E row \in store' :
                   /\ EqualIgnoringCase(row.email, last'.loc.payload.email.s)
                   /\ row.updated_at = toISOString(last'.loc.now)]_vars

(* A submission for a new email, its address below the ceiling, ended in    *)
(* the error: no row for it, the store as it was.                           *)
C17_Witness ==
    /\ LastSubmitted
    /\ LastStatus = 500
    /\ LastEmailRows = {}
    /\ store # {}
    /\ Cardinality(store) = last.rowsBefore
    /\ Cardinality(RowsOfIpOnDay(store, last.loc.ipAddress, last.loc.now.day)) < Ceiling

(* ------------------------------------------------------------------------ *)
(* C18: with a clock that only advances, every stored row has updated_at    *)
(* at or after created_at in every reachable state, requests for one email  *)
(* overlapping or not.                                                      *)
(* ------------------------------------------------------------------------ *)
C18_UpdatedNotBeforeCreated ==
    \A row \in store : TextLeq(row.created_at, row.updated_at)

(* ------------------------------------------------------------------------ *)
(* C19: an accepted submission from address B of an email whose row was     *)
(* created in the current UTC day from another address A moves the row from *)
(* A's count of the day to B's: A's falls by one, B's rises by one, the     *)
(* number of rows stays. An address's count of a day can thus fall, and an  *)
(* address at its ceiling can come below it with no request of its own.     *)
(* ------------------------------------------------------------------------ *)
C19_RowMovesBetweenIps ==
    (/\ Resubmitted
     /\ last.before.ip_address # last.loc.ipAddress
     /\ last.before.created_at[1] = last.loc.now.day)
    => LET day == last.loc.now.day
           A == last.before.ip_address
           B == last.loc.ipAddress
       IN  /\ Cardinality(RowsOfIpOnDay(store, A, day))
                = Cardinality(RowsOfIpOnDay(StoreBeforeLast, A, day)) - 1
           /\ Cardinality(RowsOfIpOnDay(store, B, day))
                = Cardinality(RowsOfIpOnDay(StoreBeforeLast, B, day)) + 1
           /\ Cardinality(store) = last.rowsBefore
           /\ \A ip \in Ips \ {A, B} :
                 RowsOfIpOnDay(store, ip, day) = RowsOfIpOnDay(StoreBeforeLast, ip, day)

(* The address that lost the row was at its ceiling and is below it now. *)
C19_Witness ==
    /\ Resubmitted
    /\ last.before.ip_address # last.loc.ipAddress
    /\ last.before.created_at[1] = last.loc.now.day
    /\ Cardinality(RowsOfIpOnDay(StoreBeforeLast, last.before.ip_address,
                                 last.loc.now.day)) = Ceiling
    /\ Cardinality(RowsOfIpOnDay(store, last.before.ip_address, last.loc.now.day))
         = Ceiling - 1

(* ------------------------------------------------------------------------ *)
(* C20: with requests handled one at a time under a fixed ceiling, in every *)
(* reachable state every address has at most `ceiling` rows created in the  *)
(* current UTC day.                                                         *)
(* ------------------------------------------------------------------------ *)
C20_RowsOfTodayWithinCeiling ==
    \A ip \in Ips : Cardinality(RowsOfIpOnDay(store, ip, clock.day)) <= Ceiling

(* An address at its ceiling in the current day has just been refused,      *)
(* three requests handled.                                                  *)
C20_Witness ==
    /\ \A r \in Reqs : pc[r] = "done"
    /\ LastStatus = 429
    /\ last.loc.now.day = clock.day
    /\ Cardinality(RowsOfIpOnDay(store, last.loc.ipAddress, clock.day)) = Ceiling
    /\ Ceiling = 2

=============================================================================
